---- MODULE Spec2Model ----
(***************************************************************************)
(* Model of the batch converter of src/index.js: discovery, the optional   *)
(* metadata pass, the main pass (Promise.map over filesToDo with a         *)
(* concurrency limit) with its per-file pipeline                           *)
(*   mkdirp -> webm processFile -> publish -> mp4 processFile ->           *)
(*   getThumbNail -> publish,                                              *)
(* the errors.json report and the exit of the process.                     *)
(***************************************************************************)
EXTENDS Integers, Sequences, FiniteSets, TLC

VARIABLES
    config,        \* config.json
    phase,         \* where the top-level promise chain is (lines 295-433)
    filesToDo,     \* line 20
    filesErrored,  \* line 21
    pc,            \* per file: the step of its mapper that is in progress
    baseExists,    \* per file: _exists (line 338)
    out,           \* files under the output root
    mirror,        \* copies made by fakeUploadFile, by the output they copy
    bucket,        \* objects pushed by uploadFile, by the output they hold
    scratch,       \* per file: its gifFolder exists
    frames,        \* per file: frames still to resize
    event,         \* what the last step did (its last debug line)
    report,        \* content of errors.json
    reportWrites,  \* number of writes of errors.json
    printed,       \* console output
    exitArg,       \* argument of process.exit
    idem,          \* one processFile call on its own (SpecIdem)
    input,         \* per file: the input file is still on disk
    keyCall,       \* makeS3Key calls on their own (SpecKey)
    walk           \* the directory tree and the parseEntry calls pending (SpecWalk)

vars == <<config, phase, filesToDo, filesErrored, pc, baseExists, out, mirror, bucket,
          scratch, frames, event, report, reportWrites, printed, exitArg, idem,
          input, keyCall, walk>>

(***************************************************************************)
(* Bounds of the model.                                                    *)
(***************************************************************************)
\* number of input files the walker can discover
NumFiles == 2
\* largest configured concurrency
MaxConcurrency == 2
\* largest number of PNG frames left in the scratch directory after the
\* type filter (the code asks ffmpeg for 50 screenshots)
MaxFrames == 1
\* largest seconds field of a timecode in the processFile calls checked alone
MaxField == 3
\* number of entries below the root of the directory trees that are walked
WalkNodes == 3
\* largest number of directory segments of an output path given to makeS3Key
MaxDepth == 4

Idx == 1..NumFiles

(***************************************************************************)
(* Paths.  A path below a root is (directory segments, base name,          *)
(* extension); a name is a sequence of characters.  The outputs of an      *)
(* input file are put under the output root in the same directory, with    *)
(* the same base name and the target extension.                            *)
(***************************************************************************)
InExt(i) == IF i % 2 = 0 THEN ".mov" ELSE ".avi"

\* the names a, aa, aaa, ...
BaseName(k) == [j \in 1..(k + 1) |-> "a"]

\* an input tree whose files have different base names (from the second
\* file on, two files share one)
InFile(i) == [dirs |-> <<BaseName(0)>>, base |-> BaseName(i \div 2), ext |-> InExt(i)]

\* an input tree of one directory whose files all have the same base name
\* and different allowed extensions
TwinExt(i) == CASE i = 1 -> ".avi" [] i = 2 -> ".mov" [] OTHER -> ".mkv"

TwinFile(i) == [dirs |-> <<BaseName(0)>>, base |-> BaseName(0), ext |-> TwinExt(i)]

\* the results parseEntry can leave in filesToDo, by tree
Trees == {[i \in Idx |-> InFile(i)], [i \in Idx |-> TwinFile(i)]}

Formats == {".webm", ".mp4"}

\* file.replace(basePath, outPath), with the extension replaced
OutFile(file, ext) == [dirs |-> file.dirs, base |-> file.base, ext |-> ext]

\* what the run writes under the output root: the encoded outputs, the
\* preview and the metadata export
Published == {OutFile(t[i], ext) : t \in Trees, i \in Idx, ext \in Formats}

OutPaths ==
    {OutFile(t[i], ext) : t \in Trees, i \in Idx, ext \in Formats \cup {".gif", ".json"}}

FileStates == {"missing", "empty", "nonempty"}

(***************************************************************************)
(* makeS3Key, lines 199-212.  slug lowercases and puts one '_' for every   *)
(* run of characters that are not alphanumeric; the checksum is the md5 of *)
(* the slugified directory (joined with '/') followed by the base name as  *)
(* it is, and stands here for the text it is computed from.                *)
(***************************************************************************)
AlphaNum == {"a", "b", "A", "B"}

toLowerCase(ch) ==
    CASE ch = "A" -> "a" [] ch = "B" -> "b" [] ch = ".MOV" -> ".mov" [] OTHER -> ch

RECURSIVE slug(_)
slug(s) ==
    IF s = <<>>
    THEN <<>>
    ELSE IF Head(s) \in AlphaNum
    THEN <<toLowerCase(Head(s))>> \o slug(Tail(s))
    ELSE IF Tail(s) # <<>> /\ Head(Tail(s)) \notin AlphaNum
    THEN slug(Tail(s))
    ELSE <<"_">> \o slug(Tail(s))

\* path.dirname(newpath).split('/'): the directory segments, '.' if none
DirnameSegments(file) == IF file.dirs = <<>> THEN << <<".">> >> ELSE file.dirs

\* .splice(0, 3)
Splice3(segs) == [k \in 1..(IF Len(segs) < 3 THEN Len(segs) ELSE 3) |-> segs[k]]

\* .join('/')
RECURSIVE JoinSlash(_)
JoinSlash(segs) ==
    IF segs = <<>> THEN <<>>
    ELSE IF Len(segs) = 1 THEN segs[1]
    ELSE segs[1] \o <<"/">> \o JoinSlash(Tail(segs))

\* the checksum without the base name: the md5 of the directory only
md5DirnameOnly(dirname, basename) == dirname

\* crypto.createHash('md5').update(dirname + basename).digest('hex')
md5(dirname, basename) == dirname \o basename

makeS3Key(file) ==
    LET dirname == JoinSlash([k \in 1..Len(Splice3(DirnameSegments(file))) |->
                                  slug(Splice3(DirnameSegments(file))[k])])
        basename == file.base
    IN  [dirname |-> dirname, name |-> slug(basename),
         checksum |-> md5(dirname, basename), extname |-> file.ext]

\* the destination keys of the outputs a run can publish
Keys == {makeS3Key(p) : p \in Published}

(***************************************************************************)
(* Errors carry a message and the code field process.exit is given.        *)
(***************************************************************************)
Err(msg, code) == [message |-> msg, code |-> code]

ErrFFMpeg == Err("FFMpeg failed", "undefined")
ErrFFProbe == Err("FFProbe failed", "undefined")

(***************************************************************************)
(* getDuration: the prober's exit code and the lines of its stderr.        *)
(* A line either holds the 'Duration:' annotation with a timecode, whose   *)
(* fields (the text before the first '.', split at ':') are kept as        *)
(* written, or it does not.  NaN stands for JavaScript's NaN.              *)
(***************************************************************************)
NaN == -1

\* a field of the timecode: digits (with their value) or other text
Num(v) == [numeric |-> TRUE, value |-> v]

NotANumber == [numeric |-> FALSE, value |-> 0]

parseInt(tok) == IF tok.numeric THEN tok.value ELSE NaN

OtherLine == [hasDuration |-> FALSE, timecode |-> <<>>]

DurationLine(tc) == [hasDuration |-> TRUE, timecode |-> tc]

Undefined == [isArray |-> FALSE, elems |-> <<>>]

ArrayOf(s) == [isArray |-> TRUE, elems |-> s]

RECURSIVE ShiftToDuration(_)
ShiftToDuration(lines) ==
    IF Len(lines) > 0 /\ ~lines[1].hasDuration
    THEN ShiftToDuration(Tail(lines))
    ELSE lines

ParseTimecode(lines) ==
    LET rest == ShiftToDuration(lines)
    IN  IF Len(rest) >= 2
        THEN ArrayOf([k \in 1..Len(rest[1].timecode) |-> parseInt(rest[1].timecode[k])])
        ELSE Undefined

\* kind "error": the child emitted 'error' (it could not be spawned); neither
\* getDuration nor processFile registers a listener for it
getDuration(probe) ==
    IF probe.kind = "error"
    THEN [crashed |-> TRUE, rejected |-> FALSE, duration |-> Undefined]
    ELSE IF probe.code # 0
    THEN [crashed |-> FALSE, rejected |-> TRUE, duration |-> Undefined]
    ELSE [crashed |-> FALSE, rejected |-> FALSE, duration |-> ParseTimecode(probe.stderr)]

(***************************************************************************)
(* isDurationEqual: element-wise |a - b| <= tolerance; a missing element   *)
(* or a NaN makes the comparison false.                                    *)
(***************************************************************************)
Elem(d, k) == IF k <= Len(d.elems) THEN d.elems[k] ELSE NaN

Abs(x) == IF x < 0 THEN -x ELSE x

AbsDiffLeq(a, b, tol) == a # NaN /\ b # NaN /\ Abs(a - b) <= tol

\* isDurationEqual without the comparison of the minutes
isDurationEqualMinutesIgnored(dur1, dur2, toleranceSec, toleranceMin, toleranceHour) ==
    /\ dur1.isArray /\ dur2.isArray
    /\ AbsDiffLeq(Elem(dur1, 1), Elem(dur2, 1), toleranceHour)
    /\ AbsDiffLeq(Elem(dur1, 3), Elem(dur2, 3), toleranceSec)

isDurationEqual(dur1, dur2, toleranceSec, toleranceMin, toleranceHour) ==
    /\ dur1.isArray /\ dur2.isArray
    /\ AbsDiffLeq(Elem(dur1, 1), Elem(dur2, 1), toleranceHour)
    /\ AbsDiffLeq(Elem(dur1, 2), Elem(dur2, 2), toleranceMin)
    /\ AbsDiffLeq(Elem(dur1, 3), Elem(dur2, 3), toleranceSec)

(***************************************************************************)
(* processFile(inFile, outFile, command) as a function of what it reads:   *)
(* the state of outFile, the two prober runs and the encoder run.          *)
(*   outcome  "skipped"  the idempotency check said skip (line 100)        *)
(*            "encoded"  the encoder closed with code 0                    *)
(*            "errored"  the .catch pushed an ErrorRecord                  *)
(*            "crashed"  the child emitted 'error'; no listener is         *)
(*                       registered, so the process dies                   *)
(*   invoked  the encoder was spawned                                      *)
(*   errs     the ErrorRecords pushed to filesErrored                      *)
(*   outState the state of outFile afterwards                              *)
(***************************************************************************)
\* an encoder run: it closes with an exit code, or the child emits 'error'
EncoderRuns ==
    {[kind |-> "close", code |-> 0],
     [kind |-> "close", code |-> 1],
     [kind |-> "error", code |-> 0]}

ErrorRecord(err, inFile, outFile) == [err |-> err, infile |-> inFile, outfile |-> outFile]

\* the size test the other way round: stats.size === 0
ExistsAndEmpty(outState) == outState = "empty"

\* lines 68-77: outFile exists and its size is not 0
ExistsNonEmpty(outState) == outState = "nonempty"

\* lines 78-97: the value the third .then receives, or a rejection; the
\* output is probed only after the input's probe resolved
IdempotencyCheck(outState, probeIn, probeOut) ==
    IF ~ExistsNonEmpty(outState)
    THEN [crashed |-> FALSE, rejected |-> FALSE, skip |-> FALSE]
    ELSE LET dIn == getDuration(probeIn)
             dOut == getDuration(probeOut)
         IN  IF dIn.crashed \/ (~dIn.rejected /\ dOut.crashed)
             THEN [crashed |-> TRUE, rejected |-> FALSE, skip |-> FALSE]
             ELSE IF dIn.rejected \/ dOut.rejected
             THEN [crashed |-> FALSE, rejected |-> TRUE, skip |-> FALSE]
             ELSE [crashed |-> FALSE, rejected |-> FALSE,
                   skip |-> isDurationEqual(dIn.duration, dOut.duration, 1, 0, 0)]

\* lines 98-125: the encoder run, when the check did not say skip
RunEncoder(inFile, outFile, outState, enc) ==
    CASE enc.kind = "error" ->
            [outcome |-> "crashed", invoked |-> TRUE, errs |-> <<>>, outState |-> outState]
      [] enc.kind = "close" /\ enc.code # 0 ->
            [outcome |-> "errored", invoked |-> TRUE,
             errs |-> <<ErrorRecord(ErrFFMpeg, inFile, outFile)>>, outState |-> outState]
      [] OTHER ->
            [outcome |-> "encoded", invoked |-> TRUE, errs |-> <<>>, outState |-> "nonempty"]

processFile(inFile, outFile, outState, probeIn, probeOut, enc) ==
    LET chk == IdempotencyCheck(outState, probeIn, probeOut)
    IN  IF chk.crashed
        THEN [outcome |-> "crashed", invoked |-> FALSE, errs |-> <<>>, outState |-> outState]
        ELSE IF chk.rejected
        THEN [outcome |-> "errored", invoked |-> FALSE,
              errs |-> <<ErrorRecord(ErrFFProbe, inFile, outFile)>>, outState |-> outState]
        ELSE IF chk.skip
        THEN [outcome |-> "skipped", invoked |-> FALSE, errs |-> <<>>, outState |-> outState]
        ELSE RunEncoder(inFile, outFile, outState, enc)

(***************************************************************************)
(* Configuration (config.json), read-only during a run.                    *)
(***************************************************************************)
Toggles(encode, makeWebm, makeMP4, makeThumbs, s3upload, fakes3upload, getFileInfo) ==
    [encode |-> encode, makeWebm |-> makeWebm, makeMP4 |-> makeMP4,
     makeThumbs |-> makeThumbs, s3upload |-> s3upload, fakes3upload |-> fakes3upload,
     getFileInfo |-> getFileInfo]

\* The toggle settings the model is run under: every toggle is on in one and
\* off in another, and the two publish toggles occur in all four combinations.
ToggleSets ==
    {Toggles(TRUE, TRUE, TRUE, TRUE, FALSE, TRUE, FALSE),
     Toggles(TRUE, TRUE, TRUE, FALSE, TRUE, FALSE, TRUE),
     Toggles(FALSE, TRUE, TRUE, TRUE, FALSE, FALSE, FALSE),
     Toggles(TRUE, FALSE, TRUE, TRUE, TRUE, TRUE, FALSE),
     Toggles(TRUE, TRUE, FALSE, FALSE, FALSE, TRUE, TRUE)}

Configs ==
    {[concurrency |-> n, encode |-> t.encode, makeWebm |-> t.makeWebm,
      makeMP4 |-> t.makeMP4, makeThumbs |-> t.makeThumbs, s3upload |-> t.s3upload,
      fakes3upload |-> t.fakes3upload, getFileInfo |-> t.getFileInfo] :
        n \in 1..MaxConcurrency, t \in ToggleSets}

(***************************************************************************)
(* Prober runs the pipeline can meet.                                      *)
(***************************************************************************)
ProbeOk(tc) ==
    [kind |-> "close", code |-> 0, stderr |-> <<OtherLine, DurationLine(tc), OtherLine>>]

ProbeNoDuration == [kind |-> "close", code |-> 0, stderr |-> <<OtherLine>>]

ProbeFailed == [kind |-> "close", code |-> 1, stderr |-> <<OtherLine>>]

ProbeSpawnError == [kind |-> "error", code |-> 0, stderr |-> <<>>]

PipelineProbes ==
    {ProbeOk(<<Num(1), Num(0), Num(0)>>), ProbeOk(<<Num(1), Num(0), Num(1)>>),
     ProbeOk(<<Num(1), Num(0), Num(3)>>), ProbeNoDuration, ProbeFailed, ProbeSpawnError}

\* Prober runs for one processFile call checked on its own: the annotation
\* may be missing, be the last line, have two fields only, or hold fields
\* that are not numbers.
Fields == {Num(v) : v \in 0..MaxField} \cup {NotANumber}

Timecodes ==
    {<<h, m, s>> : h \in {Num(0), Num(1), NotANumber}, m \in {Num(0), Num(1)}, s \in Fields}
        \cup {<<Num(1), Num(0)>>, <<Num(0), Num(0), Num(59)>>}

ProbeDurationLast(tc) ==
    [kind |-> "close", code |-> 0, stderr |-> <<OtherLine, DurationLine(tc)>>]

IdemProbes ==
    {ProbeOk(tc) : tc \in Timecodes}
        \cup {ProbeDurationLast(<<Num(1), Num(0), Num(0)>>), ProbeNoDuration,
              ProbeFailed, ProbeSpawnError}

NoResult == [outcome |-> "pending", invoked |-> FALSE, errs |-> <<>>, outState |-> "missing"]

IdemIdle ==
    [stage |-> "idle", outState |-> "missing", probeIn |-> ProbeFailed,
     probeOut |-> ProbeFailed, enc |-> [kind |-> "close", code |-> 0], result |-> NoResult]

\* no makeS3Key call on its own, no walk on its own
KeyIdle == [stage |-> "idle"]

WalkIdle == [stage |-> "idle"]

(***************************************************************************)
(* State after construction: nothing discovered, nothing recorded.  The    *)
(* output tree is what an earlier run left: nothing, empty files (a run    *)
(* killed while opening its outputs) or complete files.                    *)
(***************************************************************************)
Init ==
    /\ config \in Configs
    /\ phase = "discover"
    /\ filesToDo = <<>>
    /\ filesErrored = <<>>
    /\ pc = [i \in Idx |-> "none"]
    /\ baseExists = [i \in Idx |-> FALSE]
    /\ scratch = [i \in Idx |-> FALSE]
    /\ frames = [i \in Idx |-> 0]
    /\ \E st \in {"missing", "nonempty"} :
          /\ out = [p \in OutPaths |-> st]
          /\ mirror = [k \in Keys |-> st]
          /\ bucket = [k \in Keys |-> st]
    /\ event = "none"
    /\ report = <<>>
    /\ reportWrites = 0
    /\ printed = "none"
    /\ exitArg = "none"
    /\ idem = IdemIdle
    /\ input = [i \in Idx |-> TRUE]
    /\ keyCall = KeyIdle
    /\ walk = WalkIdle

Discovered == 1..Len(filesToDo)

\* mappers of the current Promise.map that were started and have not settled
InFlight == {i \in Discovered : pc[i] \notin {"queued", "mdone", "done", "rejected"}}

\* lines 430-433: the top-level .catch
Abort(err) ==
    /\ phase' = "exited"
    /\ printed' = "ERROR"
    /\ exitArg' = err.code

\* an 'error' event without a listener: the process dies with an uncaught
\* exception, nothing of the chain runs any more
Crash ==
    /\ phase' = "crashed"
    /\ UNCHANGED <<printed, exitArg>>

\* what one processFile call of the main pass can come to
ProcessFileResults(inFile, outFile, outState) ==
    {processFile(inFile, outFile, outState, probeIn, probeOut, enc) :
        probeIn \in PipelineProbes, probeOut \in PipelineProbes, enc \in EncoderRuns}

\* the debug line a processFile call ends with
EventOf(r) ==
    CASE r.outcome = "skipped" -> "skipping"
      [] r.outcome = "encoded" -> "encoder ok"
      [] r.outcome = "errored" /\ r.invoked -> "encoder failed"
      [] r.outcome = "errored" /\ ~r.invoked -> "probe failed"
      [] OTHER -> "spawn error"

(***************************************************************************)
(* parseEntry(config.basePath), lines 31-50 and 295.                       *)
(***************************************************************************)
Discover ==
    /\ phase = "discover"
    /\ \/ /\ Abort(Err("stat failed", "ENOENT"))
          /\ event' = "discovery failed"
          /\ UNCHANGED <<filesToDo, pc>>
       \/ \E n \in 0..NumFiles, tree \in Trees :
            /\ filesToDo' = [i \in 1..n |-> tree[i]]
            /\ pc' = [i \in Idx |-> IF i <= n THEN "queued" ELSE "none"]
            /\ phase' = IF config.getFileInfo THEN "meta" ELSE "main"
            /\ event' = "none"
            /\ UNCHANGED <<printed, exitArg>>
    /\ UNCHANGED <<config, filesErrored, baseExists, out, mirror, bucket, scratch, frames,
                   report, reportWrites, idem, input, keyCall, walk>>

(***************************************************************************)
(* The metadata pass, lines 296-331: Promise.map(filesToDo, ...,           *)
(* {concurrency}) of one prober run and one .json write per file.          *)
(***************************************************************************)
MetaStart(i) ==
    /\ phase = "meta"
    /\ i \in Discovered
    /\ pc[i] = "queued"
    /\ Cardinality(InFlight) < config.concurrency
    /\ pc' = [pc EXCEPT ![i] = "mprobe"]
    /\ event' = "none"
    /\ UNCHANGED <<config, phase, filesToDo, filesErrored, baseExists, out, mirror, bucket,
                   scratch, frames, report, reportWrites, printed, exitArg, idem, input, keyCall, walk>>

\* lines 311-319: probe.on('close'); a non-zero code resolves at once
MetaProbeClose(i) ==
    /\ phase = "meta"
    /\ i \in Discovered
    /\ pc[i] = "mprobe"
    /\ \/ /\ pc' = [pc EXCEPT ![i] = "mdone"]
          /\ event' = "probe failed"
          /\ UNCHANGED <<phase, printed, exitArg>>
       \/ /\ pc' = [pc EXCEPT ![i] = "mwrite"]
          /\ event' = "none"
          /\ UNCHANGED <<phase, printed, exitArg>>
       \/ /\ Crash
          /\ event' = "spawn error"
          /\ UNCHANGED pc
    /\ UNCHANGED <<config, filesToDo, filesErrored, baseExists, out, mirror, bucket,
                   scratch, frames, report, reportWrites, idem, input, keyCall, walk>>

\* lines 319-327: ensureDir, then writeFile; the callback resolves with or
\* without an error.  A rejected ensureDir is handled by nobody: the mapper's
\* promise never settles
MetaWrite(i) ==
    /\ phase = "meta"
    /\ i \in Discovered
    /\ pc[i] = "mwrite"
    /\ \/ /\ pc' = [pc EXCEPT ![i] = "mdone"]
          /\ out' = [out EXCEPT ![OutFile(filesToDo[i], ".json")] = "nonempty"]
          /\ event' = "info written"
       \/ /\ pc' = [pc EXCEPT ![i] = "mdone"]
          /\ event' = "write failed"
          /\ UNCHANGED out
       \/ /\ pc' = [pc EXCEPT ![i] = "mhung"]
          /\ event' = "none"
          /\ UNCHANGED out
    /\ UNCHANGED <<config, phase, filesToDo, filesErrored, baseExists, mirror, bucket,
                   scratch, frames, report, reportWrites, printed, exitArg, idem, input, keyCall, walk>>

\* line 332: the pass's promise resolves, the main pass begins
MetaPassEnd ==
    /\ phase = "meta"
    /\ \A i \in Discovered : pc[i] = "mdone"
    /\ phase' = "main"
    /\ pc' = [i \in Idx |-> IF i \in Discovered THEN "queued" ELSE "none"]
    /\ event' = "none"
    /\ UNCHANGED <<config, filesToDo, filesErrored, baseExists, out, mirror, bucket,
                   scratch, frames, report, reportWrites, printed, exitArg, idem, input, keyCall, walk>>

(***************************************************************************)
(* The main pass, lines 332-422.  pc[i] names the stage of file i that is  *)
(* in progress; each action is the completion of that stage, which starts  *)
(* the next one.                                                           *)
(***************************************************************************)
\* StartPipeline without the {concurrency} option of Promise.map
StartPipelineUnbounded(i) ==
    /\ phase = "main"
    /\ i \in Discovered
    /\ pc[i] = "queued"
    /\ pc' = [pc EXCEPT ![i] = "mkdirp"]
    /\ event' = "none"
    /\ UNCHANGED <<config, phase, filesToDo, filesErrored, baseExists, out, mirror, bucket,
                   scratch, frames, report, reportWrites, printed, exitArg, idem, input, keyCall, walk>>

StartPipeline(i) ==
    /\ phase = "main"
    /\ i \in Discovered
    /\ pc[i] = "queued"
    /\ Cardinality(InFlight) < config.concurrency
    /\ pc' = [pc EXCEPT ![i] = "mkdirp"]
    /\ event' = "none"
    /\ UNCHANGED <<config, phase, filesToDo, filesErrored, baseExists, out, mirror, bucket,
                   scratch, frames, report, reportWrites, printed, exitArg, idem, input, keyCall, walk>>

\* lines 339-344: mkdirp(pathName), then _exists = exists(pathName/baseName)
MkdirpDone(i) ==
    /\ phase = "main"
    /\ i \in Discovered
    /\ pc[i] = "mkdirp"
    /\ \/ /\ Abort(Err("mkdirp failed", "EACCES"))
          /\ pc' = [pc EXCEPT ![i] = "rejected"]
          /\ event' = "mkdirp failed"
          /\ UNCHANGED baseExists
       \/ \E e \in BOOLEAN :
            /\ baseExists' = [baseExists EXCEPT ![i] = e]
            /\ pc' = [pc EXCEPT ![i] = "webm"]
            /\ event' = "none"
            /\ UNCHANGED <<phase, printed, exitArg>>
    /\ UNCHANGED <<config, filesToDo, filesErrored, out, mirror, bucket, scratch, frames,
                   report, reportWrites, idem, input, keyCall, walk>>

\* lines 345-353 and 379-387: processFile when enabled and not short-circuited
TranscodeStage(i, fmt, enabled, here, next) ==
    /\ phase = "main"
    /\ i \in Discovered
    /\ pc[i] = here
    /\ LET file == filesToDo[i]
           outfile == OutFile(file, fmt)
       IN  IF ~baseExists[i] /\ config.encode /\ enabled
           THEN \E r \in ProcessFileResults(file, outfile, out[outfile]) :
                      /\ input[i] \/ r.outcome \in {"errored", "crashed"}
                      /\ out' = [out EXCEPT ![outfile] = r.outState]
                      /\ filesErrored' = filesErrored \o r.errs
                      /\ event' = EventOf(r)
                      /\ IF r.outcome = "crashed"
                         THEN Crash /\ UNCHANGED pc
                         ELSE /\ pc' = [pc EXCEPT ![i] = next]
                              /\ UNCHANGED <<phase, printed, exitArg>>
           ELSE /\ pc' = [pc EXCEPT ![i] = next]
                /\ event' = "none"
                /\ UNCHANGED <<phase, printed, exitArg, out, filesErrored>>
    /\ UNCHANGED <<config, filesToDo, baseExists, mirror, bucket, scratch, frames, report,
                   reportWrites, idem, input, keyCall, walk>>

\* WebmStage whose continuation is the MP4 transcode, not the publish step
WebmStageThenMp4(i) == TranscodeStage(i, ".webm", config.makeWebm, "webm", "mp4")

WebmStage(i) == TranscodeStage(i, ".webm", config.makeWebm, "webm", "publishWebm")

Mp4Stage(i) == TranscodeStage(i, ".mp4", config.makeMP4, "mp4", "thumb")

(***************************************************************************)
(* The publish step, lines 354-377 and 397-420.  s3upload is tested first  *)
(* and returns; fakes3upload is looked at only when s3upload is off.       *)
(*   uploadFile (169-190): 'error' resolves with the error, 'end' resolves *)
(*   fakeUploadFile (192-197): ensureDir, then copy; both may reject, and  *)
(*   the copy of a file that is not there does                             *)
(***************************************************************************)
\* fs.exists(file) answering true whatever is on disk
SourceExistsAlways(i) == TRUE

\* lines 356, 367, 399, 410: fs.exists(file) on the input file
SourceExists(i) == input[i]

PublishStage(i, fmt, here, next) ==
    /\ phase = "main"
    /\ i \in Discovered
    /\ pc[i] = here
    /\ LET outfile == OutFile(filesToDo[i], fmt)
           key == makeS3Key(outfile)
           proceed == /\ pc' = [pc EXCEPT ![i] = next]
                      /\ UNCHANGED <<phase, printed, exitArg>>
       IN  \/ /\ config.s3upload
              /\ \/ \* the input file is gone: not uploaded
                    /\ ~SourceExists(i)
                    /\ proceed
                    /\ event' = "not uploading"
                    /\ UNCHANGED <<mirror, bucket>>
                 \/ \* upload.on('error'): resolve(err)
                    /\ SourceExists(i)
                    /\ proceed
                    /\ event' = "upload failed"
                    /\ UNCHANGED <<mirror, bucket>>
                 \/ \* upload.on('end')
                    /\ SourceExists(i)
                    /\ out[outfile] # "missing"
                    /\ proceed
                    /\ event' = "upload completed"
                    /\ bucket' = [bucket EXCEPT ![key] = out[outfile]]
                    /\ UNCHANGED mirror
           \/ /\ ~config.s3upload /\ config.fakes3upload
              /\ \/ \* the input file is gone: not copied
                    /\ ~SourceExists(i)
                    /\ proceed
                    /\ event' = "not uploading"
                    /\ UNCHANGED <<mirror, bucket>>
                 \/ \* ensureDir rejects
                    /\ SourceExists(i)
                    /\ Abort(Err("ensureDir failed", "EACCES"))
                    /\ event' = "copy failed"
                    /\ pc' = [pc EXCEPT ![i] = "rejected"]
                    /\ UNCHANGED <<mirror, bucket>>
                 \/ \* copy rejects: no source, or the write fails
                    /\ SourceExists(i)
                    /\ Abort(Err("copy failed", IF out[outfile] = "missing" THEN "ENOENT" ELSE "EIO"))
                    /\ event' = "copy failed"
                    /\ pc' = [pc EXCEPT ![i] = "rejected"]
                    /\ UNCHANGED <<mirror, bucket>>
                 \/ \* copy resolves
                    /\ SourceExists(i)
                    /\ out[outfile] # "missing"
                    /\ proceed
                    /\ event' = "copied"
                    /\ mirror' = [mirror EXCEPT ![key] = out[outfile]]
                    /\ UNCHANGED bucket
           \/ /\ ~config.s3upload /\ ~config.fakes3upload
              /\ proceed
              /\ event' = "none"
              /\ UNCHANGED <<mirror, bucket>>
    /\ UNCHANGED <<config, filesToDo, filesErrored, baseExists, out, scratch, frames,
                   report, reportWrites, idem, input, keyCall, walk>>

PublishWebm(i) == PublishStage(i, ".webm", "publishWebm", "mp4")

\* the last publish step handing the WebM output to the backend once more
PublishWebmAgain(i) == PublishStage(i, ".webm", "publishMp4", "done")

PublishMp4(i) == PublishStage(i, ".mp4", "publishMp4", "done")

(***************************************************************************)
(* getThumbNail(outfile), lines 214-293, called at lines 388-396 without a *)
(* .catch: a rejection of any sub-step rejects the file's pipeline.        *)
(***************************************************************************)
\* lines 215-216: ensureDir(gifFolder), a fresh random name beside the file
ThumbEnsureDir(i) ==
    /\ phase = "main"
    /\ i \in Discovered
    /\ pc[i] = "thumb"
    /\ IF ~config.makeThumbs
       THEN /\ pc' = [pc EXCEPT ![i] = "publishMp4"]
            /\ event' = "none"
            /\ UNCHANGED <<phase, printed, exitArg, scratch>>
       ELSE \/ /\ scratch' = [scratch EXCEPT ![i] = TRUE]
               /\ pc' = [pc EXCEPT ![i] = "thumbExtract"]
               /\ event' = "none"
               /\ UNCHANGED <<phase, printed, exitArg>>
            \/ /\ Abort(Err("ensureDir failed", "EACCES"))
               /\ event' = "thumbnail failed"
               /\ pc' = [pc EXCEPT ![i] = "rejected"]
               /\ UNCHANGED scratch
    /\ UNCHANGED <<config, filesToDo, filesErrored, baseExists, out, mirror, bucket, frames,
                   report, reportWrites, idem, input, keyCall, walk>>

\* lines 217-251: ffmpeg(file).screenshots, then the synchronous type filter;
\* n PNG frames are left for the resize
ThumbExtract(i) ==
    /\ phase = "main"
    /\ i \in Discovered
    /\ pc[i] = "thumbExtract"
    /\ \/ \* .on('error'): reject(err)
          /\ Abort(Err("screenshots failed", "undefined"))
          /\ event' = "thumbnail failed"
          /\ pc' = [pc EXCEPT ![i] = "rejected"]
          /\ UNCHANGED frames
       \/ \* .on('end'), then readChunk.sync or unlinkSync throws in the filter
          /\ out[OutFile(filesToDo[i], ".mp4")] = "nonempty"
          /\ Abort(Err("filter failed", "ENOENT"))
          /\ event' = "thumbnail failed"
          /\ pc' = [pc EXCEPT ![i] = "rejected"]
          /\ UNCHANGED frames
       \/ \* .on('end'), the filter keeps n frames
          /\ out[OutFile(filesToDo[i], ".mp4")] = "nonempty"
          /\ \E n \in 0..MaxFrames :
               /\ frames' = [frames EXCEPT ![i] = n]
               /\ pc' = [pc EXCEPT ![i] = IF n = 0 THEN "thumbComposite" ELSE "thumbResize"]
          /\ event' = "none"
          /\ UNCHANGED <<phase, printed, exitArg>>
    /\ UNCHANGED <<config, filesToDo, filesErrored, baseExists, out, mirror, bucket, scratch,
                   report, reportWrites, idem, input, keyCall, walk>>

\* lines 252-272: one sharp resize, its callback unlinks the frame
ThumbResize(i) ==
    /\ phase = "main"
    /\ i \in Discovered
    /\ pc[i] = "thumbResize"
    /\ frames[i] > 0
    /\ frames' = [frames EXCEPT ![i] = @ - 1]
    /\ \/ /\ Abort(Err("resize failed", "undefined"))
          /\ event' = "thumbnail failed"
          /\ pc' = [pc EXCEPT ![i] = "rejected"]
       \/ /\ pc' = [pc EXCEPT ![i] = IF frames[i] = 1 THEN "thumbComposite" ELSE "thumbResize"]
          /\ event' = "none"
          /\ UNCHANGED <<phase, printed, exitArg>>
    /\ UNCHANGED <<config, filesToDo, filesErrored, baseExists, out, mirror, bucket, scratch,
                   report, reportWrites, idem, input, keyCall, walk>>

\* lines 273-291: gm(...).write(preview); the scratch directory is removed
\* in the callback's success branch only
ThumbComposite(i) ==
    /\ phase = "main"
    /\ i \in Discovered
    /\ pc[i] = "thumbComposite"
    /\ \/ /\ Abort(Err("gm failed", "1"))
          /\ event' = "thumbnail failed"
          /\ pc' = [pc EXCEPT ![i] = "rejected"]
          /\ UNCHANGED <<out, scratch>>
       \/ /\ out' = [out EXCEPT ![OutFile(filesToDo[i], ".gif")] = "nonempty"]
          /\ scratch' = [scratch EXCEPT ![i] = FALSE]
          /\ pc' = [pc EXCEPT ![i] = "publishMp4"]
          /\ event' = "preview built"
          /\ UNCHANGED <<phase, printed, exitArg>>
    /\ UNCHANGED <<config, filesToDo, filesErrored, baseExists, mirror, bucket, frames,
                   report, reportWrites, idem, input, keyCall, walk>>

(***************************************************************************)
(* End of the run, lines 423-429.                                          *)
(***************************************************************************)
MainPassEnd ==
    /\ phase = "main"
    /\ \A i \in Discovered : pc[i] = "done"
    /\ phase' = "report"
    /\ event' = "none"
    /\ UNCHANGED <<config, filesToDo, filesErrored, pc, baseExists, out, mirror, bucket,
                   scratch, frames, report, reportWrites, printed, exitArg, idem, input, keyCall, walk>>

\* line 424: fs.writeFile('errors.json', JSON.stringify(filesErrored))
WriteReport ==
    /\ phase = "report"
    /\ \/ /\ report' = filesErrored
          /\ reportWrites' = reportWrites + 1
          /\ phase' = "written"
          /\ event' = "none"
          /\ UNCHANGED <<printed, exitArg>>
       \/ /\ Abort(Err("writeFile failed", "EACCES"))
          /\ event' = "report failed"
          /\ UNCHANGED <<report, reportWrites>>
    /\ UNCHANGED <<config, filesToDo, filesErrored, pc, baseExists, out, mirror, bucket,
                   scratch, frames, idem, input, keyCall, walk>>

\* lines 426-429: console.log('Done.'); process.exit(0)
Finish ==
    /\ phase = "written"
    /\ printed' = "Done."
    /\ exitArg' = "0"
    /\ phase' = "exited"
    /\ event' = "none"
    /\ UNCHANGED <<config, filesToDo, filesErrored, pc, baseExists, out, mirror, bucket,
                   scratch, frames, report, reportWrites, idem, input, keyCall, walk>>

(***************************************************************************)
(* One processFile call on its own (lines 67-130), for every state of the  *)
(* output file, every pair of prober runs and every encoder run.           *)
(***************************************************************************)
IdemFile == InFile(1)

IdemOutFile == OutFile(IdemFile, ".webm")

InitIdem ==
    /\ config \in {c \in Configs : c.concurrency = 1 /\ c.encode /\ c.makeWebm /\ c.makeMP4
                                   /\ c.makeThumbs /\ ~c.s3upload}
    /\ phase = "processFile"
    /\ filesToDo = <<IdemFile>>
    /\ filesErrored = <<>>
    /\ pc = [i \in Idx |-> IF i = 1 THEN "webm" ELSE "none"]
    /\ baseExists = [i \in Idx |-> FALSE]
    /\ \E st \in FileStates, probeIn \in IdemProbes, probeOut \in IdemProbes, enc \in EncoderRuns :
          /\ out = [p \in OutPaths |-> IF p = IdemOutFile THEN st ELSE "missing"]
          /\ idem = [stage |-> "ready", outState |-> st, probeIn |-> probeIn,
                     probeOut |-> probeOut, enc |-> enc, result |-> NoResult]
    /\ mirror = [k \in Keys |-> "missing"]
    /\ bucket = [k \in Keys |-> "missing"]
    /\ scratch = [i \in Idx |-> FALSE]
    /\ frames = [i \in Idx |-> 0]
    /\ event = "none"
    /\ report = <<>>
    /\ reportWrites = 0
    /\ printed = "none"
    /\ exitArg = "none"
    /\ input = [i \in Idx |-> TRUE]
    /\ keyCall = KeyIdle
    /\ walk = WalkIdle

ProcessFileCall ==
    /\ phase = "processFile"
    /\ idem.stage = "ready"
    /\ LET r == processFile(IdemFile, IdemOutFile, out[IdemOutFile], idem.probeIn,
                            idem.probeOut, idem.enc)
       IN  /\ idem' = [idem EXCEPT !.stage = "done", !.result = r]
           /\ out' = [out EXCEPT ![IdemOutFile] = r.outState]
           /\ filesErrored' = filesErrored \o r.errs
           /\ event' = EventOf(r)
           /\ IF r.outcome = "crashed"
              THEN Crash /\ UNCHANGED pc
              ELSE /\ pc' = [pc EXCEPT ![1] = "publishWebm"]
                   /\ UNCHANGED <<phase, printed, exitArg>>
    /\ UNCHANGED <<config, filesToDo, baseExists, mirror, bucket, scratch, frames, report,
                   reportWrites, input, keyCall, walk>>

NextIdem == ProcessFileCall

SpecIdem == InitIdem /\ [][NextIdem]_vars

Next ==
    \/ Discover
    \/ MetaPassEnd
    \/ MainPassEnd
    \/ WriteReport
    \/ Finish
    \/ \E i \in Idx :
         \/ MetaStart(i)
         \/ MetaProbeClose(i)
         \/ MetaWrite(i)
         \/ StartPipeline(i)
         \/ MkdirpDone(i)
         \/ WebmStage(i)
         \/ PublishWebm(i)
         \/ Mp4Stage(i)
         \/ ThumbEnsureDir(i)
         \/ ThumbExtract(i)
         \/ ThumbResize(i)
         \/ ThumbComposite(i)
         \/ PublishMp4(i)

Spec == Init /\ [][Next]_vars

(***************************************************************************)
(* makeS3Key (lines 199-212) on its own, for two output paths below the    *)
(* output root: up to MaxDepth directory segments, base names that differ  *)
(* in case or in a character slug replaces, and a target extension.        *)
(***************************************************************************)
KeySegments == {<<"a">>, <<"A">>}

KeyBases == {<<"a">>, <<"A">>, <<"a", " ", "b">>}

KeyDirs == UNION {[1..n -> KeySegments] : n \in 0..MaxDepth}

KeyPaths == {[dirs |-> d, base |-> b, ext |-> x] : d \in KeyDirs, b \in KeyBases, x \in Formats}

InitKey ==
    /\ config \in {c \in Configs : c.concurrency = 1 /\ c.encode /\ c.makeWebm /\ c.makeMP4
                                   /\ c.makeThumbs /\ ~c.s3upload}
    /\ phase = "makeS3Key"
    /\ filesToDo = <<>>
    /\ filesErrored = <<>>
    /\ pc = [i \in Idx |-> "none"]
    /\ baseExists = [i \in Idx |-> FALSE]
    /\ out = [p \in OutPaths |-> "missing"]
    /\ mirror = [k \in Keys |-> "missing"]
    /\ bucket = [k \in Keys |-> "missing"]
    /\ scratch = [i \in Idx |-> FALSE]
    /\ frames = [i \in Idx |-> 0]
    /\ event = "none"
    /\ report = <<>>
    /\ reportWrites = 0
    /\ printed = "none"
    /\ exitArg = "none"
    /\ idem = IdemIdle
    /\ input = [i \in Idx |-> TRUE]
    /\ walk = WalkIdle
    /\ \E f1 \in KeyPaths, f2 \in KeyPaths :
          keyCall = [stage |-> "ready", file1 |-> f1, file2 |-> f2]

\* makeS3Key(file1) twice and makeS3Key(file2) once
MakeS3KeyCalls ==
    /\ phase = "makeS3Key"
    /\ keyCall.stage = "ready"
    /\ keyCall' = [stage |-> "done", file1 |-> keyCall.file1, file2 |-> keyCall.file2,
                   key1 |-> makeS3Key(keyCall.file1), key1Again |-> makeS3Key(keyCall.file1),
                   key2 |-> makeS3Key(keyCall.file2)]
    /\ event' = "keys made"
    /\ UNCHANGED <<config, phase, filesToDo, filesErrored, pc, baseExists, out, mirror,
                   bucket, scratch, frames, report, reportWrites, printed, exitArg, idem,
                   input, walk>>

NextKey == MakeS3KeyCalls

SpecKey == InitKey /\ [][NextKey]_vars

(***************************************************************************)
(* parseEntry (lines 31-50) on its own, call by call, over every tree of   *)
(* WalkNodes entries below the root: entry 0 is the root, entries 1 and 2  *)
(* are in the root, every later entry n is in entry n - 2.  An entry is a  *)
(* directory or a file with an extension, and its name starts with '.' or  *)
(* does not; what is below a file does not exist.                          *)
(***************************************************************************)
\* config.extensions
Extensions == {".mov", ".avi"}

WalkExts == {".mov", ".MOV", ".txt"}

Entries ==
    {[hidden |-> h, kind |-> "dir", ext |-> ""] : h \in BOOLEAN}
        \cup {[hidden |-> h, kind |-> "file", ext |-> x] : h \in BOOLEAN, x \in WalkExts}

ParentOf(n) == IF n <= 2 THEN 0 ELSE n - 2

ChildrenOf(n) == {c \in 1..WalkNodes : ParentOf(c) = n}

\* path.basename(fname) without its extension
EntryName(n) == (IF walk.tree[n].hidden THEN <<".">> ELSE <<>>) \o BaseName(n)

\* the entries from the root (excluded) down to n (excluded)
RECURSIVE AncestorsOf(_)
AncestorsOf(n) ==
    IF n = 0 \/ ParentOf(n) = 0 THEN <<>> ELSE Append(AncestorsOf(ParentOf(n)), ParentOf(n))

\* fname, relative to the root
EntryPath(n) ==
    [dirs |-> [k \in 1..Len(AncestorsOf(n)) |-> EntryName(AncestorsOf(n)[k])],
     base |-> EntryName(n), ext |-> walk.tree[n].ext]

InitWalk ==
    /\ config \in {c \in Configs : c.concurrency = 1 /\ c.encode /\ c.makeWebm /\ c.makeMP4
                                   /\ c.makeThumbs /\ ~c.s3upload}
    /\ phase = "walk"
    /\ filesToDo = <<>>
    /\ filesErrored = <<>>
    /\ pc = [i \in Idx |-> "none"]
    /\ baseExists = [i \in Idx |-> FALSE]
    /\ out = [p \in OutPaths |-> "missing"]
    /\ mirror = [k \in Keys |-> "missing"]
    /\ bucket = [k \in Keys |-> "missing"]
    /\ scratch = [i \in Idx |-> FALSE]
    /\ frames = [i \in Idx |-> 0]
    /\ event = "none"
    /\ report = <<>>
    /\ reportWrites = 0
    /\ printed = "none"
    /\ exitArg = "none"
    /\ idem = IdemIdle
    /\ input = [i \in Idx |-> TRUE]
    /\ keyCall = KeyIdle
    /\ \E tree \in [0..WalkNodes -> Entries] :
          walk = [stage |-> "walking", tree |-> tree, pending |-> {0}]

\* one parseEntry(fname) call, for the entry n
ParseEntry(n) ==
    /\ phase = "walk"
    /\ walk.stage = "walking"
    /\ n \in walk.pending
    /\ IF Head(EntryName(n)) = "."
       THEN \* line 33: return; for the root, undefined.then throws
            /\ walk' = [walk EXCEPT !.pending = @ \ {n}]
            /\ IF n = 0
               THEN Crash /\ event' = "discovery failed"
               ELSE event' = "none" /\ UNCHANGED <<phase, printed, exitArg>>
            /\ UNCHANGED filesToDo
       ELSE \/ \* fs.stat or fs.readdir rejects
               /\ Abort(Err("stat failed", "ENOENT"))
               /\ event' = "discovery failed"
               /\ UNCHANGED <<walk, filesToDo>>
            \/ /\ walk.tree[n].kind = "dir"
               /\ walk' = [walk EXCEPT !.pending = (@ \ {n}) \cup ChildrenOf(n)]
               /\ event' = "none"
               /\ UNCHANGED <<filesToDo, phase, printed, exitArg>>
            \/ /\ walk.tree[n].kind = "file"
               /\ walk' = [walk EXCEPT !.pending = @ \ {n}]
               /\ filesToDo' = IF toLowerCase(walk.tree[n].ext) \in Extensions
                               THEN Append(filesToDo, EntryPath(n))
                               ELSE filesToDo
               /\ event' = "none"
               /\ UNCHANGED <<phase, printed, exitArg>>
    /\ UNCHANGED <<config, filesErrored, pc, baseExists, out, mirror, bucket, scratch,
                   frames, report, reportWrites, idem, input, keyCall>>

\* line 296: the promise of parseEntry(config.basePath) resolves
WalkEnd ==
    /\ phase = "walk"
    /\ walk.stage = "walking"
    /\ walk.pending = {}
    /\ walk' = [walk EXCEPT !.stage = "done"]
    /\ phase' = "walked"
    /\ event' = "none"
    /\ UNCHANGED <<config, filesToDo, filesErrored, pc, baseExists, out, mirror, bucket,
                   scratch, frames, report, reportWrites, printed, exitArg, idem, input,
                   keyCall>>

NextWalk == WalkEnd \/ \E n \in 0..WalkNodes : ParseEntry(n)

SpecWalk == InitWalk /\ [][NextWalk]_vars

(***************************************************************************)
(* The run of the end-to-end scenario: concurrency 1, encode, makeWebm,    *)
(* makeMP4, makeThumbs and fakes3upload on, s3upload and getFileInfo off,  *)
(* nothing under the output root.                                          *)
(***************************************************************************)
ScenarioConfig ==
    [concurrency |-> 1, encode |-> TRUE, makeWebm |-> TRUE, makeMP4 |-> TRUE,
     makeThumbs |-> TRUE, s3upload |-> FALSE, fakes3upload |-> TRUE, getFileInfo |-> FALSE]

InitScenario ==
    /\ Init
    /\ config = ScenarioConfig
    /\ \A p \in OutPaths : out[p] = "missing"

NextScenario ==
    \/ Discover
    \/ MainPassEnd
    \/ WriteReport
    \/ Finish
    \/ \E i \in Idx :
         \/ StartPipeline(i)
         \/ MkdirpDone(i)
         \/ WebmStage(i)
         \/ PublishWebm(i)
         \/ Mp4Stage(i)
         \/ ThumbEnsureDir(i)
         \/ ThumbExtract(i)
         \/ ThumbResize(i)
         \/ ThumbComposite(i)
         \/ PublishMp4(i)

SpecScenario == InitScenario /\ [][NextScenario]_vars

(***************************************************************************)
(* The same run in an environment that removes input files while their     *)
(* pipelines are running: what the publish steps' fs.exists(file) guards.  *)
(***************************************************************************)
InputRemoved(i) ==
    /\ phase = "main"
    /\ i \in InFlight
    /\ input[i]
    /\ input' = [input EXCEPT ![i] = FALSE]
    /\ event' = "input removed"
    /\ UNCHANGED <<config, phase, filesToDo, filesErrored, pc, baseExists, out, mirror,
                   bucket, scratch, frames, report, reportWrites, printed, exitArg, idem,
                   keyCall, walk>>

NextGuard == Next \/ \E i \in Idx : InputRemoved(i)

SpecGuard == Init /\ [][NextGuard]_vars

(***************************************************************************)
(* Properties.                                                             *)
(***************************************************************************)
RunOver == phase \in {"exited", "crashed"}

AllPipelinesDone == \A i \in Discovered : pc[i] = "done"

ThumbStages == {"thumb", "thumbExtract", "thumbResize", "thumbComposite"}

\* the run was ended by the step that failed to copy or to read output o,
\* which is missing
EndedForMissing(o) ==
    \/ event = "copy failed" /\ exitArg = "ENOENT"
    \/ event = "thumbnail failed" /\ o.ext = ".mp4"

\* C1: error isolation across files.  Take a run over several files that is
\* over, in which the encoder exited non-zero for output o of some file and
\* nothing else went wrong: the run ended normally, or it ended at the step
\* of that file that next needed o.  Then every file's pipeline has run all
\* its stages and errors.json holds the record with that file's input path
\* and o.  This is the claim as stated; the code violates it.
C1_ErrorIsolation ==
    \A k \in 1..Len(filesErrored) :
        (/\ RunOver
         /\ Len(filesToDo) > 1
         /\ filesErrored[k].err = ErrFFMpeg
         /\ \/ event = "none"
            \/ /\ EndedForMissing(filesErrored[k].outfile)
               /\ out[filesErrored[k].outfile] = "missing"
               /\ \E i \in Discovered :
                    pc[i] = "rejected" /\ filesToDo[i] = filesErrored[k].infile)
        => /\ AllPipelinesDone
           /\ reportWrites = 1
           /\ \E j \in 1..Len(report) :
                /\ report[j].infile = filesErrored[k].infile
                /\ report[j].outfile = filesErrored[k].outfile

\* C2: processFile never fails towards its caller.  After a processFile call
\* in which something failed (a prober failure, the encoder that could not be
\* spawned, a non-zero encoder exit), exactly one ErrorRecord with the call's
\* input and output path has been appended and the stage has returned, so the
\* file is at its next stage.  This is the claim as stated; the code violates
\* it when the child emits 'error'.
C2_TranscodeStageCatchesEverything ==
    (idem.stage = "done" /\ idem.result.outcome \notin {"skipped", "encoded"})
    => /\ Len(filesErrored) = 1
       /\ filesErrored[1].infile = IdemFile
       /\ filesErrored[1].outfile = IdemOutFile
       /\ phase = "processFile"
       /\ pc[1] = "publishWebm"

\* C3: a failure of a thumbnail sub-step is recorded and is not fatal.  Right
\* after a sub-step of getThumbNail failed the run goes on and filesErrored
\* holds a record for that file.  This is the claim as stated; the code
\* violates it.
C3_ThumbnailFailureRecordedNotFatal ==
    event = "thumbnail failed"
    => /\ phase = "main"
       /\ \A i \in Discovered :
            pc[i] = "rejected" =>
                \E k \in 1..Len(filesErrored) :
                    /\ filesErrored[k].infile = filesToDo[i]
                    /\ filesErrored[k].outfile = OutFile(filesToDo[i], ".mp4")

\* C4: a publish failure of either backend is caught and recorded, and stops
\* nothing.  Right after an upload error or a failed mirror copy the run goes
\* on, no mapper is rejected and filesErrored holds a new record.  This is
\* the claim as stated; the code violates it.
C4_PublishFailureRecordedNotFatal ==
    event \in {"upload failed", "copy failed"}
    => /\ phase = "main"
       /\ \A i \in Discovered : pc[i] # "rejected"
       /\ Len(filesErrored) > 0
       /\ filesErrored[Len(filesErrored)].err \notin {ErrFFMpeg, ErrFFProbe}

\* C5: normal completion whatever the per-file failures.  A run that is over,
\* whose discovery succeeded and whose report could be written (and in which
\* every child process could be spawned and every output directory made), has written
\* errors.json exactly once with every ErrorRecord of the run, printed the
\* completion marker and exited with status 0.  This is the claim as stated;
\* the code violates it.
C5_NormalCompletion ==
    (RunOver /\ event \notin {"discovery failed", "report failed", "spawn error", "mkdirp failed"})
    => /\ reportWrites = 1
       /\ report = filesErrored
       /\ printed = "Done."
       /\ exitArg = "0"

\* what getDuration resolves to for a prober run: a numeric (h, m, s) triple
NumericTriple(probe) ==
    LET d == getDuration(probe)
    IN  /\ ~d.crashed /\ ~d.rejected
        /\ d.duration.isArray
        /\ Len(d.duration.elems) = 3
        /\ \A k \in 1..3 : d.duration.elems[k] # NaN

TripleOf(probe) == getDuration(probe).duration.elems

ProbesAnswer == idem.probeIn.kind = "close" /\ idem.probeIn.code = 0
                /\ idem.probeOut.kind = "close" /\ idem.probeOut.code = 0

SkipExpected ==
    /\ idem.outState = "nonempty"
    /\ NumericTriple(idem.probeIn)
    /\ NumericTriple(idem.probeOut)
    /\ TripleOf(idem.probeIn)[1] = TripleOf(idem.probeOut)[1]
    /\ TripleOf(idem.probeIn)[2] = TripleOf(idem.probeOut)[2]
    /\ TripleOf(idem.probeIn)[3] - TripleOf(idem.probeOut)[3] \in {-1, 0, 1}

\* C6: the idempotency decision.  processFile takes its skip branch (and then
\* does not spawn the encoder) exactly when the output exists with non-zero
\* size and input and output both probe to numeric (h, m, s) triples with
\* equal hours, equal minutes and seconds at most 1 apart; in every other
\* case in which the prober answered, the encoder is spawned.
C6_IdempotencyDecision ==
    idem.stage = "done"
    => /\ (idem.result.outcome = "skipped") <=> SkipExpected
       /\ idem.result.outcome = "skipped" => ~idem.result.invoked
       /\ (~SkipExpected /\ (idem.outState # "nonempty" \/ ProbesAnswer))
            => idem.result.invoked

\* C6 witness: (1,0,0) against (1,0,1) on an existing output was skipped
C6_Witness ==
    /\ idem.stage = "done"
    /\ idem.outState = "nonempty"
    /\ idem.probeIn = ProbeOk(<<Num(1), Num(0), Num(0)>>)
    /\ idem.probeOut = ProbeOk(<<Num(1), Num(0), Num(1)>>)
    /\ idem.result.outcome = "skipped"
    /\ event = "skipping"

\* C7: a prober that exits non-zero means 'do not skip'.  After a processFile
\* call on an existing non-empty output in which the prober exited non-zero
\* for the input or for the output, the encoder has been spawned, and if it
\* succeeded the output is re-produced.  This is the claim as stated; the
\* code violates it.
C7_ProbeFailureReencodes ==
    (/\ idem.stage = "done"
     /\ idem.outState = "nonempty"
     /\ idem.probeIn.kind = "close" /\ idem.probeOut.kind = "close"
     /\ (idem.probeIn.code # 0 \/ idem.probeOut.code # 0))
    => /\ idem.result.invoked
       /\ (idem.enc.kind = "close" /\ idem.enc.code = 0) => idem.result.outcome = "encoded"

\* C8: the concurrency bound, in both passes.  After every step at most
\* config.concurrency mappers are in flight; a mapper is started only while
\* fewer than that are in flight; and a mapper that was in flight leaves the
\* pool only settled (its pipeline at its end, or rejected), never back to
\* the queue.
C8_ConcurrencyBound ==
    [][/\ Cardinality(InFlight') <= config.concurrency
       /\ \A i \in Idx :
            /\ (i \notin InFlight /\ i \in InFlight')
                 => /\ pc[i] = "queued"
                    /\ Cardinality(InFlight) < config.concurrency
            /\ (i \in InFlight /\ i \notin InFlight')
                 => pc'[i] \in {"mdone", "done", "rejected"}]_vars

\* C8 witness: the pool is full in the main pass and a file is waiting
C8_Witness ==
    /\ phase = "main"
    /\ Cardinality(InFlight) = config.concurrency
    /\ \E i \in Discovered : pc[i] = "queued"

\* the one successor of each stage of a file's pipeline
StageOrder ==
    {<<"queued", "mkdirp">>, <<"mkdirp", "webm">>, <<"webm", "publishWebm">>,
     <<"publishWebm", "mp4">>, <<"mp4", "thumb">>, <<"thumb", "thumbExtract">>,
     <<"thumb", "publishMp4">>, <<"thumbExtract", "thumbResize">>,
     <<"thumbExtract", "thumbComposite">>, <<"thumbResize", "thumbResize">>,
     <<"thumbResize", "thumbComposite">>, <<"thumbComposite", "publishMp4">>,
     <<"publishMp4", "done">>}

\* some file is at stage `here`, its output with extension ext is p, and the
\* step finishes that stage
StepOf(here, ext, p) ==
    \E i \in Discovered :
        /\ pc[i] \in here
        /\ pc'[i] # pc[i] \/ phase' # phase \/ frames'[i] # frames[i]
        /\ OutFile(filesToDo[i], ext) = p

\* C9: the stage order within a file, under every interleaving.  In the main
\* pass a file only ever moves from a stage to the next one of
\*   WebM transcode, publish of the WebM, MP4 transcode, thumbnail, publish
\*   of the MP4
\* (or its pipeline is rejected), also after a stage that failed; and what a
\* step does belongs to the stage the file is at: an encoded output is
\* written, or an ErrorRecord for it appended, only by the transcode stage of
\* that format, an output is published only by the publish stage that follows
\* it, and the scratch directory and the preview are touched only by the
\* thumbnail stage, which reads the MP4 output.
C9_StageOrder ==
    [][phase = "main" =>
        /\ \A i \in Discovered :
             /\ pc'[i] # pc[i] => (<<pc[i], pc'[i]>> \in StageOrder \/ pc'[i] = "rejected")
             /\ scratch'[i] # scratch[i] => pc[i] \in ThumbStages
             /\ frames'[i] # frames[i] => pc[i] \in ThumbStages
             /\ (pc[i] = "thumbExtract" /\ pc'[i] \in {"thumbResize", "thumbComposite"})
                  => out[OutFile(filesToDo[i], ".mp4")] = "nonempty"
        /\ \A p \in Published :
             /\ out'[p] # out[p]
                  => StepOf(IF p.ext = ".webm" THEN {"webm"} ELSE {"mp4"}, p.ext, p)
             /\ (mirror'[makeS3Key(p)] # mirror[makeS3Key(p)]
                    \/ bucket'[makeS3Key(p)] # bucket[makeS3Key(p)])
                  => StepOf(IF p.ext = ".webm" THEN {"publishWebm"} ELSE {"publishMp4"}, p.ext, p)
        /\ \A p \in OutPaths : (p.ext = ".gif" /\ out'[p] # out[p])
                  => StepOf({"thumbComposite"}, ".gif", p)
        /\ Len(filesErrored') > Len(filesErrored)
             => LET r == filesErrored'[Len(filesErrored')]
                IN  StepOf(IF r.outfile.ext = ".webm" THEN {"webm"} ELSE {"mp4"},
                           r.outfile.ext, r.outfile)]_vars

\* C9 witness: one file is through all its stages, after a transcode of it
\* failed, while another is in the middle of its thumbnail stage
C9_Witness ==
    /\ phase = "main"
    /\ \E i \in Discovered, j \in Discovered :
         /\ pc[i] = "done"
         /\ pc[j] = "thumbComposite"
         /\ \E k \in 1..Len(filesErrored) : filesErrored[k].infile = filesToDo[i]

\* C10: the thumbnail cleanup invariant.  Once the thumbnail stage of a file
\* has finished, with the preview written or with a failed sub-step, the
\* file's scratch directory does not exist.  This is the claim as stated; the
\* code violates it.
C10_ThumbnailCleanup ==
    \A i \in Discovered :
        (\/ pc[i] \in {"publishMp4", "done"}
         \/ (pc[i] = "rejected" /\ event = "thumbnail failed"))
        => ~scratch[i]

\* the publish step of file i is the step taken
PublishStepOf(i) ==
    /\ i \in Discovered
    /\ pc[i] \in {"publishWebm", "publishMp4"}
    /\ pc'[i] # pc[i]

PublishedOutput(i) == OutFile(filesToDo[i], IF pc[i] = "publishWebm" THEN ".webm" ELSE ".mp4")

\* C12: the publish guard.  In every publish step of a file: if its input
\* file is no longer on disk, the step reports that it does not upload and
\* no object of the bucket and no copy of the mirror changes; if the input is
\* on disk, nothing changes but the object (remote backend) or the copy
\* (mirror backend) at the key makeS3Key derives from the path of the output
\* this stage publishes, and a publish that completes leaves the output's
\* content there.  Outside the publish steps nothing is pushed or copied.
C12_PublishGuard ==
    [][/\ \A i \in Idx : PublishStepOf(i) =>
            LET key == makeS3Key(PublishedOutput(i))
            IN  /\ ~input[i] => /\ UNCHANGED <<mirror, bucket>>
                                /\ event' = "not uploading" \/ event' = "none"
                /\ input[i] =>
                      /\ \A k \in Keys \ {key} : mirror'[k] = mirror[k] /\ bucket'[k] = bucket[k]
                      /\ event' = "upload completed"
                           => (config.s3upload /\ bucket'[key] = out[PublishedOutput(i)]
                               /\ UNCHANGED mirror)
                      /\ event' = "copied"
                           => (~config.s3upload /\ config.fakes3upload
                               /\ mirror'[key] = out[PublishedOutput(i)]
                               /\ UNCHANGED bucket)
                      /\ event' \notin {"upload completed", "copied"} => UNCHANGED <<mirror, bucket>>
       /\ (\A i \in Idx : ~PublishStepOf(i)) => UNCHANGED <<mirror, bucket>>]_vars

\* C12 witness: a file whose input was removed is past the publish of its
\* WebM output, which was not copied, while the same run's configuration
\* publishes to the mirror
C12_Witness ==
    /\ phase = "main"
    /\ config.fakes3upload /\ ~config.s3upload
    /\ event = "not uploading"
    /\ \E i \in Discovered :
         /\ ~input[i]
         /\ pc[i] = "mp4"
         /\ out[OutFile(filesToDo[i], ".webm")] = "nonempty"
         /\ mirror[makeS3Key(OutFile(filesToDo[i], ".webm"))] = "missing"

\* what a transcode, a thumbnail sub-step or a publish reports when it ran
StageRan ==
    {"skipping", "encoder ok", "encoder failed", "probe failed", "spawn error",
     "not uploading", "upload failed", "upload completed", "copy failed", "copied",
     "thumbnail failed", "preview built"}

\* C11: the coarse short-circuit.  When the base output name of a file
\* exists (_exists is true), no step of that file's pipeline performs a
\* transcode, a thumbnail sub-step or a publish: the step reports none of
\* them and changes no output, no scratch directory, no mirror copy and no
\* bucket object.  This is the claim as stated; the code violates it, since
\* _exists is tested by the two transcode steps only.
C11_CoarseShortCircuit ==
    [][\A i \in Idx :
          (/\ phase = "main"
           /\ i \in Discovered
           /\ baseExists[i]
           /\ pc[i] \notin {"queued", "mkdirp"}
           /\ pc'[i] # pc[i])
          => /\ event' \notin StageRan
             /\ UNCHANGED <<out, mirror, bucket, scratch, frames, filesErrored>>]_vars

\* the entry exists: everything above it is a directory
RECURSIVE EntryExists(_)
EntryExists(n) ==
    n = 0 \/ (walk.tree[ParentOf(n)].kind = "dir" /\ EntryExists(ParentOf(n)))

\* no entry from below the root down to n has a name that starts with '.'
RECURSIVE NoHiddenBelowRoot(_)
NoHiddenBelowRoot(n) ==
    n = 0 \/ (~walk.tree[n].hidden /\ NoHiddenBelowRoot(ParentOf(n)))

\* the files the claim says are discovered
ExpectedFiles ==
    {EntryPath(n) : n \in {m \in 0..WalkNodes :
        /\ EntryExists(m)
        /\ walk.tree[m].kind = "file"
        /\ ~walk.tree[m].hidden
        /\ NoHiddenBelowRoot(m)
        /\ toLowerCase(walk.tree[m].ext) \in Extensions}}

\* every parseEntry call has returned and none failed to stat or read
WalkOver == walk.stage # "idle" /\ walk.pending = {} /\ exitArg = "none"

\* C13: the discovery filter.  For every tree, once every parseEntry call
\* has returned without a stat or read failure, filesToDo holds exactly the
\* files, at every depth, whose own name and whose ancestors' names below
\* the root do not start with '.', and whose lowercased extension is in
\* config.extensions, each once.  This is the claim as stated; the code
\* violates it when the name of the root itself starts with '.'.
C13_DiscoveryFilter ==
    WalkOver
    => /\ {filesToDo[k] : k \in 1..Len(filesToDo)} = ExpectedFiles
       /\ Len(filesToDo) = Cardinality(ExpectedFiles)

C20_KeyInjective ==
    (keyCall.stage = "done" /\ keyCall.file1 # keyCall.file2)
    => keyCall.key1 # keyCall.key2

\* the scenario's run is over: one file was discovered, no tool failed (no
\* ErrorRecord, no abort) and the process has exited
ScenarioDone ==
    /\ Len(filesToDo) = 1
    /\ filesErrored = <<>>
    /\ phase = "exited"
    /\ printed = "Done."

\* exactly the paths of S changed in the step, each from missing to written
WrittenOnce(f, S) ==
    /\ \A x \in S : f[x] = "missing" /\ f'[x] = "nonempty"
    /\ \A x \in (DOMAIN f) \ S : f'[x] = f[x]

\* C15: the end-to-end scenario.  With one input file, concurrency 1, both
\* transcodes, the thumbnail and the mirror upload on and every tool
\* succeeding, the finished run has written the .webm, the .mp4 and the
\* preview, the mirror holds copies at the two keys makeS3Key derives from
\* the two output paths and nowhere else, nothing was pushed to the bucket,
\* and errors.json was written once, as the empty list.  Each of these was
\* done once: on the way, every successful encode writes one output that
\* was missing, every copy one mirror key that was missing, and the
\* composite the preview that was missing.
C15_EndToEnd ==
    /\ [](ScenarioDone =>
            LET file == filesToDo[1]
                webm == OutFile(file, ".webm")
                mp4 == OutFile(file, ".mp4")
            IN  /\ out[webm] = "nonempty" /\ out[mp4] = "nonempty"
                /\ out[OutFile(file, ".gif")] = "nonempty"
                /\ ~scratch[1]
                /\ makeS3Key(webm) # makeS3Key(mp4)
                /\ \A k \in Keys :
                      mirror[k] = IF k \in {makeS3Key(webm), makeS3Key(mp4)}
                                  THEN "nonempty" ELSE "missing"
                /\ \A k \in Keys : bucket[k] = "missing"
                /\ reportWrites = 1 /\ report = <<>>
                /\ exitArg = "0")
    /\ [][Len(filesToDo) = 1 =>
            LET file == filesToDo[1]
            IN  /\ event' = "encoder ok" =>
                      \E x \in Formats : pc[1] = (IF x = ".webm" THEN "webm" ELSE "mp4")
                                          /\ WrittenOnce(out, {OutFile(file, x)})
                /\ event' = "copied" =>
                      \E x \in Formats :
                          /\ pc[1] = (IF x = ".webm" THEN "publishWebm" ELSE "publishMp4")
                          /\ WrittenOnce(mirror, {makeS3Key(OutFile(file, x))})
                /\ event' = "preview built" => WrittenOnce(out, {OutFile(file, ".gif")})
                /\ event' \notin {"encoder ok", "preview built"} => UNCHANGED out
                /\ event' # "copied" => UNCHANGED mirror
                /\ UNCHANGED bucket]_vars

\* C15 witness: the scenario's run has finished with both copies in the
\* mirror
C15_Witness ==
    /\ ScenarioDone
    /\ config = ScenarioConfig
    /\ mirror[makeS3Key(OutFile(filesToDo[1], ".webm"))] = "nonempty"
    /\ mirror[makeS3Key(OutFile(filesToDo[1], ".mp4"))] = "nonempty"
    /\ report = <<>>

\* the path the step file i is in will write: the output of a transcode
\* whose encoder has to run (the output is not there to be kept), or the
\* preview
WriteTarget(i) ==
    CASE pc[i] = "webm" /\ ~baseExists[i] /\ config.encode /\ config.makeWebm
                /\ out[OutFile(filesToDo[i], ".webm")] # "nonempty"
            -> {OutFile(filesToDo[i], ".webm")}
      [] pc[i] = "mp4" /\ ~baseExists[i] /\ config.encode /\ config.makeMP4
                /\ out[OutFile(filesToDo[i], ".mp4")] # "nonempty"
            -> {OutFile(filesToDo[i], ".mp4")}
      [] pc[i] = "thumbComposite" -> {OutFile(filesToDo[i], ".gif")}
      [] OTHER -> {}

\* C16: no write contention.  Whatever was discovered and whatever the pool
\* size, two pipelines that are in flight together are never writing the
\* same transcode output or the same preview.  This is the claim as stated;
\* the code violates it for inputs of one directory that have the same base
\* name and different extensions.
C16_NoWriteContention ==
    \A i \in InFlight, j \in InFlight :
        i # j => WriteTarget(i) \cap WriteTarget(j) = {}

\* C17: resize serialization.  At every moment at most one frame resize is
\* in progress in the whole process, whatever the pool size.  This is the
\* claim as stated; the code violates it: the limit of one is per
\* getThumbNail call.
C17_ResizeSerialized ==
    Cardinality({i \in Discovered : pc[i] = "thumbResize" /\ frames[i] > 0}) <= 1

\* the status the process ends with for an argument of process.exit: a
\* number is the status; undefined and the error-code strings of fs
\* ('ENOENT', 'EACCES', ...) are not numbers and end the process with 0
ExitStatus(arg) == CASE arg = "1" -> 1 [] OTHER -> 0

\* C18: the fatal conditions.  A run that took the top-level .catch, or
\* died, did so for a discovery failure or for the failed write of
\* errors.json, and printed the error and ended with a status that is not 0.
\* This is the claim as stated; the code violates it.
C18_FatalConditions ==
    (RunOver /\ printed # "Done.")
    => /\ event \in {"discovery failed", "report failed"}
       /\ printed = "ERROR"
       /\ ExitStatus(exitArg) # 0

\* the length in seconds a numeric (h, m, s) triple stands for
SecondsOf(t) == 3600 * t[1] + 60 * t[2] + t[3]

\* the state a finished run with successful transcodes leaves for a second
\* run's processFile call: the output is there and not empty, and the prober
\* answers with a numeric triple for input and output
SecondRunCall ==
    /\ idem.stage = "done"
    /\ idem.outState = "nonempty"
    /\ NumericTriple(idem.probeIn)
    /\ NumericTriple(idem.probeOut)

\* the second run's call left everything as it was
NothingRedone ==
    /\ idem.result.outcome = "skipped"
    /\ ~idem.result.invoked
    /\ filesErrored = <<>>
    /\ out[IdemOutFile] = "nonempty"
    /\ pc[1] = "publishWebm"

\* C19 as stated: re-run idempotence.  In a second run over unchanged
\* trees, whenever the prober reports for the output a duration within 1
\* second of the input's, processFile does not invoke the encoder and
\* appends no ErrorRecord.  The code violates this for durations on the two
\* sides of a minute (or hour) boundary, such as 0:00:59 and 0:01:00 (shown
\* for an encoder that works when it is run).
C19_RerunWithinOneSecond ==
    (/\ SecondRunCall
     /\ idem.enc = [kind |-> "close", code |-> 0]
     /\ SecondsOf(TripleOf(idem.probeIn)) - SecondsOf(TripleOf(idem.probeOut)) \in {-1, 0, 1})
    => NothingRedone

\* C19 as amended: in a second run over unchanged trees, whenever the prober
\* reports for input and output triples with the same hours, the same
\* minutes and seconds fields at most 1 apart, processFile does not invoke
\* the encoder, appends no ErrorRecord and leaves the output as it is; the
\* decision uses the output file's state and the two probes only.
C19_RerunIdempotent ==
    (/\ SecondRunCall
     /\ TripleOf(idem.probeIn)[1] = TripleOf(idem.probeOut)[1]
     /\ TripleOf(idem.probeIn)[2] = TripleOf(idem.probeOut)[2]
     /\ TripleOf(idem.probeIn)[3] - TripleOf(idem.probeOut)[3] \in {-1, 0, 1})
    => NothingRedone

\* C19 witness: a second run's call on an output of 0:01:02 for an input of
\* 0:01:03 has skipped
C19_Witness ==
    /\ SecondRunCall
    /\ idem.probeIn = ProbeOk(<<Num(0), Num(1), Num(3)>>)
    /\ idem.probeOut = ProbeOk(<<Num(0), Num(1), Num(2)>>)
    /\ NothingRedone

====
